---- MODULE Spec2Model ----
(***************************************************************************)
(* Model of the mail poller of mail2notion_demo (src/src/poller.py):       *)
(* the dedup ledger (.state.json), its load/migration/save, the per-message*)
(* pipeline _process_one and the poll loop main (Spec).  Three smaller      *)
(* specifications look at parts of it on their own: SpecCalls applies the  *)
(* pure functions _tickers_from_subject_leading and choose_best_date to    *)
(* their arguments, SpecCompose follows the composition of one message     *)
(* (dates, article fetch, date marker, tickers, units) and SpecBackoff the  *)
(* sleeps                                                                  *)
(* of the loop over many cycles.                                           *)
(*                                                                         *)
(* Strings are sequences of one-character strings, so that concatenation,  *)
(* splitting and sorting are computed rather than assumed.  A character    *)
(* that cannot be written in ASCII is named ("ndash", "mdash").            *)
(***************************************************************************)
EXTENDS Integers, Sequences, FiniteSets, TLC

\* ------------------------------------------------------------------------
\* Characters and strings
\* ------------------------------------------------------------------------

Letters == <<"A","B","C","D","E","F","G","H","I","J","K","L","M",
             "N","O","P","Q","R","S","T","U","V","W","X","Y","Z">>

Digits == <<"0","1","2","3","4","5","6","7","8","9">>

LowerLetters == <<"a","b","c","d","e","f","g","h","i","j","k","l","m",
                  "n","o","p","q","r","s","t","u","v","w","x","y","z">>

IndexOf(seq, c) == CHOOSE i \in 1..Len(seq) : seq[i] = c

InSeq(seq, c) == \E i \in 1..Len(seq) : seq[i] = c

\* Unicode code point of a character: the order Python's sorted() uses.
CodePoint(c) ==
    IF InSeq(Letters, c) THEN 64 + IndexOf(Letters, c)
    ELSE IF InSeq(LowerLetters, c) THEN 96 + IndexOf(LowerLetters, c)
    ELSE IF InSeq(Digits, c) THEN 47 + IndexOf(Digits, c)
    ELSE CASE c = " " -> 32
           [] c = "#" -> 35
           [] c = "&" -> 38
           [] c = "," -> 44
           [] c = "-" -> 45
           [] c = "/" -> 47
           [] c = ":" -> 58
           [] c = "ndash" -> 8211
           [] c = "mdash" -> 8212

\* [A-Z]
IsUpper(c) == InSeq(Letters, c)

\* \s
IsSpace(c) == c = " "

\* [:\-–—]
IsSep(c) == c \in {":", "-", "ndash", "mdash"}

\* [A-Z ,/&-]
IsMultiChar(c) == IsUpper(c) \/ c \in {" ", ",", "/", "&", "-"}

\* [,\s/&-]
IsDelim(c) == IsSpace(c) \/ c \in {",", "/", "&", "-"}

\* str.upper() on one character
UpperChar(c) == IF InSeq(LowerLetters, c) THEN Letters[IndexOf(LowerLetters, c)] ELSE c

\* str.upper()
Upper(s) == [i \in 1..Len(s) |-> UpperChar(s[i])]

\* str.isalpha()
IsAlpha(s) == Len(s) > 0 /\ \A i \in 1..Len(s) : InSeq(Letters, s[i]) \/ InSeq(LowerLetters, s[i])

\* a < b in Python's string order (lexicographic by code point)
StrLess(a, b) ==
    \E k \in 0..Len(a) :
        /\ k <= Len(b)
        /\ \A i \in 1..k : a[i] = b[i]
        /\ \/ (k = Len(a) /\ k < Len(b))
           \/ (k < Len(a) /\ k < Len(b) /\ CodePoint(a[k+1]) < CodePoint(b[k+1]))

RECURSIVE Sorted(_)
\* sorted(S) for a set S of strings
Sorted(S) ==
    IF S = {} THEN <<>>
    ELSE LET m == CHOOSE x \in S : \A y \in S \ {x} : StrLess(x, y)
         IN  <<m>> \o Sorted(S \ {m})

\* set(list)
ToSet(seq) == {seq[i] : i \in 1..Len(seq)}

\* ------------------------------------------------------------------------
\* Ticker extraction from the subject
\* ------------------------------------------------------------------------

\* s[i..j] all satisfy the class (empty range allowed)
AllSpace(s, i, j) == \A k \in i..j : IsSpace(s[k])
AllUpper(s, i, j) == \A k \in i..j : IsUpper(s[k])
AllMulti(s, i, j) == \A k \in i..j : IsMultiChar(s[k])

\* \s*[:\-–—]\s matched right after position e, with w blanks before the separator
TailAt(s, e, w) ==
    /\ e + w + 2 <= Len(s)
    /\ AllSpace(s, e + 1, e + w)
    /\ IsSep(s[e + w + 1])
    /\ IsSpace(s[e + w + 2])

\* The ways ^\s*([A-Z]{1,5})\s*[:\-–—]\s matches s: <<lead, n>> with lead
\* leading blanks and a group of n letters.
SubjLeadSingle(s) ==
    { p \in (0..Len(s)) \X (1..5) :
        /\ p[1] + p[2] <= Len(s)
        /\ AllSpace(s, 1, p[1])
        /\ AllUpper(s, p[1] + 1, p[1] + p[2])
        /\ \E w \in 0..Len(s) : TailAt(s, p[1] + p[2], w) }

\* The ways ^\s*([A-Z ,/&-]{3,})\s*[:\-–—]\s matches s.
SubjLeadMulti(s) ==
    { p \in (0..Len(s)) \X (3..Len(s)) :
        /\ p[1] + p[2] <= Len(s)
        /\ AllSpace(s, 1, p[1])
        /\ AllMulti(s, p[1] + 1, p[1] + p[2])
        /\ \E w \in 0..Len(s) : TailAt(s, p[1] + p[2], w) }

\* The match a backtracking matcher with greedy quantifiers reports first:
\* the longest run of leading blanks, then the longest group.
Greedy(M) ==
    CHOOSE p \in M : \A q \in M : q[1] < p[1] \/ (q[1] = p[1] /\ q[2] <= p[2])

\* m.group(1)
Group1(s, p) == SubSeq(s, p[1] + 1, p[1] + p[2])

\* re.split(r"[,\s/&-]+", chunk), without the empty strings it may yield at
\* the ends (the caller drops them: len(t) > 1)
SplitTokens(chunk) ==
    { SubSeq(chunk, i, j) : <<i, j>> \in
        { q \in (1..Len(chunk)) \X (1..Len(chunk)) :
            /\ q[1] <= q[2]
            /\ \A k \in q[1]..q[2] : ~IsDelim(chunk[k])
            /\ (q[1] = 1 \/ IsDelim(chunk[q[1] - 1]))
            /\ (q[2] = Len(chunk) \/ IsDelim(chunk[q[2] + 1])) } }

\* the candidate set before the allow-list filter
LeadingCands(subject) ==
    IF SubjLeadSingle(subject) # {}
    THEN { Upper(Group1(subject, Greedy(SubjLeadSingle(subject)))) }
    ELSE IF SubjLeadMulti(subject) # {}
    THEN { Upper(t) : t \in
            { tok \in SplitTokens(Group1(subject, Greedy(SubjLeadMulti(subject)))) :
                1 < Len(Upper(tok)) /\ Len(Upper(tok)) <= 5 /\ IsAlpha(Upper(tok)) } }
    ELSE {}

\* _tickers_from_subject_leading with sorted(cands, reverse=True)
TickersDescending(subject, allowed) ==
    LET up == Sorted(IF allowed # {} THEN LeadingCands(subject) \cap allowed
                     ELSE LeadingCands(subject))
    IN  [i \in 1..Len(up) |-> up[Len(up) + 1 - i]]

\* _tickers_from_subject_leading without lines 56-57
TickersNoAllowFilter(subject, allowed) ==
    Sorted(LeadingCands(subject))

\* _tickers_from_subject_leading, with the allow-list as a parameter
TickersFromSubjectLeading(subject, allowed) ==
    Sorted(IF allowed # {} THEN LeadingCands(subject) \cap allowed
           ELSE LeadingCands(subject))

\* ------------------------------------------------------------------------
\* Bounds of the model and program constants
\* ------------------------------------------------------------------------

\* searches made over a whole behaviour
MaxTicks == 2

\* process restarts over a whole behaviour
MaxRestarts == 1

\* POLL_INTERVAL_SEC (default of the environment variable)
POLL_INTERVAL_SEC == 30

\* IDLE_BACKOFF_MAX (default of the environment variable)
IDLE_BACKOFF_MAX == 300

\* POLL_BATCH (default of the environment variable)
POLL_BATCH == 10

\* ------------------------------------------------------------------------
\* The mailbox the collaborator serves
\* ------------------------------------------------------------------------

M1 == <<"1","a">>
M2 == <<"1","b">>

\* message ids the mailbox can return
MsgIds == {M1, M2}

\* "AA, BB: x"
SubjTwo == <<"A","A",","," ","B","B",":"," ","x">>
\* "Market"
SubjNone == <<"M","a","r","k","e","t">>

Subjects == {SubjTwo, SubjNone}

\* the mailboxes modelled: the subject of M1 leads with two tickers, that of
\* M2 with none
Mailboxes == { mb \in [MsgIds -> Subjects] : mb[M1] = SubjTwo /\ mb[M2] = SubjNone }

\* what search_messages can return: up to POLL_BATCH of the ids that match
\* at the time, latest first (M1 is the later message)
SearchResults ==
    { r \in {<<>>, <<M1>>, <<M2>>, <<M1, M2>>} : Len(r) <= POLL_BATCH }

\* ------------------------------------------------------------------------
\* The ledger file and the state dict
\* ------------------------------------------------------------------------

\* {}
EmptyDict == [k \in {} |-> <<>>]

\* d[k] = v
Put(d, k, v) == [x \in DOMAIN d \cup {k} |-> IF x = k THEN v ELSE d[x]]

\* d.get(k, default)
Get(d, k, default) == IF k \in DOMAIN d THEN d[k] ELSE default

\* f"{msg_id}#{ticker}"
Key(msg_id, ticker) == msg_id \o <<"#">> \o ticker

\* f"{mid}#ALL"
LegacyKey(mid) == mid \o <<"#","A","L","L">>

NoFile == [kind |-> "absent"]

\* a file opened for writing whose content was not (completely) written
TornFile == [kind |-> "torn"]

\* the file json.dump(st) leaves; json.load gives st back
JsonFile(st) == [kind |-> "json", st |-> st]

\* a file holding a JSON document that is not an object: []
NotObjectFile == [kind |-> "json_list"]

\* lines 77-84: the dict read from the file, {} when there is no file or
\* json.load raises
ReadDict(f) == IF f.kind = "json" THEN f.st ELSE EmptyDict

\* lines 80, 87-88: json.load returns the list, which the try block lets
\* through; "processed_keys" not in [] is true and st["processed_keys"] = []
\* raises TypeError, outside any try
LoadRaises(f) == f.kind = "json_list"

\* lines 87-88
WithKeys(st) ==
    IF "processed_keys" \notin DOMAIN st THEN Put(st, "processed_keys", <<>>) ELSE st

\* lines 89-92 without the assignment of line 92
MigrateKeepsIds(st) ==
    IF "processed_ids" \in DOMAIN st /\ st["processed_ids"] # <<>>
    THEN Put(st, "processed_keys",
             st["processed_keys"] \o
             [i \in 1..Len(st["processed_ids"]) |-> LegacyKey(st["processed_ids"][i])])
    ELSE st

\* lines 89-92
Migrate(st) ==
    IF "processed_ids" \in DOMAIN st /\ st["processed_ids"] # <<>>
    THEN Put(Put(st, "processed_keys",
                 st["processed_keys"] \o
                 [i \in 1..Len(st["processed_ids"]) |-> LegacyKey(st["processed_ids"][i])]),
             "processed_ids", <<>>)
    ELSE st

\* line 94
Dedup(st) == Put(st, "processed_keys", Sorted(ToSet(st["processed_keys"])))

\* _load_state
LoadState(f) == Dedup(Migrate(WithKeys(ReadDict(f))))

\* the ledger files an installation can start with: none, one an older
\* version (message-only scheme) wrote, or one that is not a ledger
InitialFiles ==
    { NoFile,
      JsonFile([processed_ids |-> <<M2, M1>>]),
      NotObjectFile }

\* ------------------------------------------------------------------------
\* State
\* ------------------------------------------------------------------------

VARIABLES
    file,            \* .state.json on disk
    mailbox,         \* subject of each message (the mailbox does not change it)
    allowed,         \* ALLOWED_TICKERS
    call,            \* a call of a pure function on its own: arguments and result
    comp,            \* one call of _process_one (lines 109-187) on its own
    naps,            \* the sleeps of a run of idle cycles
    pc,              \* where the process is; "down" when there is none
    state,           \* main: state
    processed_keys,  \* main: processed_keys (the set _process_one is handed)
    idle_backoff,    \* main: idle_backoff
    ids,             \* main: new_ids of the cycle
    idx,             \* main: position of the for loop in new_ids
    tickers,         \* _process_one: tickers
    tix,             \* _process_one: position of the for loop in tickers
    saveFor,         \* who called _save_state: "unit" or "final"
    exitCause,       \* why main returned or died: "none", "interrupt", "error",
                     \* "load_error" (_load_state raised),
                     \* "crash" (killed in the loop), "crash_exit" (killed in the handler)
    ticks,           \* searches made so far
    restarts,        \* restarts so far
    prevExit,        \* exitCause of the run before this one, "none" in the first
    finalSave,       \* the _save_state of the interrupt handler in this run:
                     \* "none" (not ended), "done" (returned) or "raised"
    doneRun,         \* unit keys whose _save_state has returned in this run
    \* history, read by the properties only
    written,         \* unit keys write_markdown was called for, over all runs
    llmFailed,       \* unit keys whose last render_markdown call raised
    okRun,           \* unit keys write_markdown has returned for in this run
    completed,       \* unit keys whose _save_state has returned
    started,         \* ids _process_one was called for in this cycle
    failedMsgs,      \* ids whose _process_one raised in this cycle
    raisedIn,        \* where the last _process_one raised: "none", "fetch", "unit"
    cycleWrites,     \* unit keys write_markdown was called for in this cycle
    cycleClean,      \* no _process_one of this cycle has raised
    cycleSaved,      \* open(STATE_FILE, "w") has returned in this cycle
    prevIds,         \* new_ids of the cycle before, <<>> when there is none
    prevClean,       \* cycleClean of the cycle before
    repeat,          \* "clean" or "dirty": this cycle has the ids of the cycle before,
                     \* in which no or some _process_one raised; else "no"
    legacyIds        \* ids the loads found in the legacy processed_ids list

runVars == <<restarts, prevExit, finalSave, doneRun>>
progVars == <<pc, state, processed_keys, idle_backoff, ids, idx, tickers, tix, saveFor>>
cfgVars == <<mailbox, allowed, call, comp, naps>>
envVars == <<file, mailbox, allowed, call, comp, naps>>
cycleHist == <<started, failedMsgs, raisedIn, cycleWrites, cycleClean, cycleSaved, repeat>>
prevHist == <<prevIds, prevClean>>
vars == <<file, mailbox, allowed, call, comp, naps, pc, state, processed_keys, idle_backoff, ids, idx,
          tickers, tix, saveFor, exitCause, ticks, restarts, prevExit, finalSave, doneRun,
          written, llmFailed, okRun,
          completed, started, failedMsgs, raisedIn, cycleWrites, cycleClean, prevIds,
          prevClean, repeat, cycleSaved, legacyIds>>

\* msg_id of the _process_one call under way
CurMsg == ids[idx]

\* key of the unit under way
CurKey == Key(CurMsg, tickers[tix])

\* the pcs inside the try block of main (lines 210-238)
LoopPcs == {"tick", "msg", "unit", "llm", "write", "mark", "saved", "ret", "sleep"}

\* no pure call, no composition and no nap under way
NoCall == [fn |-> "none"]
NoComp == [at |-> "off"]
NoNaps == [sleep_s |-> 0, slept |-> 0, prev_sleep_s |-> 0, prev_slept |-> 0]

\* the memory of a process that has not started main
ProcessInit ==
    /\ pc = "boot"
    /\ state = EmptyDict
    /\ processed_keys = {}
    /\ idle_backoff = POLL_INTERVAL_SEC
    /\ ids = <<>>
    /\ idx = 1
    /\ tickers = <<>>
    /\ tix = 1
    /\ saveFor = "unit"
    /\ exitCause = "none"
    /\ ticks = 0
    /\ restarts = 0
    /\ prevExit = "none"
    /\ finalSave = "none"
    /\ doneRun = {}
    /\ written = {}
    /\ llmFailed = {}
    /\ okRun = {}
    /\ completed = {}
    /\ started = {}
    /\ failedMsgs = {}
    /\ raisedIn = "none"
    /\ cycleWrites = {}
    /\ cycleClean = TRUE
    /\ cycleSaved = FALSE
    /\ prevIds = <<>>
    /\ prevClean = TRUE
    /\ repeat = "no"
    /\ legacyIds = {}

Init ==
    /\ file \in InitialFiles
    /\ mailbox \in Mailboxes
    /\ allowed = {}
    /\ call = NoCall
    /\ comp = NoComp
    /\ naps = NoNaps
    /\ ProcessInit

\* ------------------------------------------------------------------------
\* main: start-up (lines 206-208)
\* ------------------------------------------------------------------------

Min(a, b) == IF a < b THEN a ELSE b

\* what a new cycle starts its history with
NewCycle(r) ==
    /\ started' = {}
    /\ failedMsgs' = {}
    /\ raisedIn' = "none"
    /\ cycleWrites' = {}
    /\ cycleClean' = TRUE
    /\ cycleSaved' = FALSE
    /\ repeat' = IF r # <<>> /\ r = prevIds
                 THEN (IF prevClean THEN "clean" ELSE "dirty")
                 ELSE "no"

\* nothing of the memory of a process outlives it
MemoryGone ==
    /\ state' = EmptyDict
    /\ processed_keys' = {}
    /\ idle_backoff' = POLL_INTERVAL_SEC
    /\ ids' = <<>>
    /\ idx' = 1
    /\ tickers' = <<>>
    /\ tix' = 1
    /\ saveFor' = "unit"
    /\ okRun' = {}
    /\ NewCycle(<<>>)
    /\ prevIds' = <<>>
    /\ prevClean' = TRUE

\* the loop of main is left: its variables and those of _process_one are
\* not read again
LoopLeft ==
    /\ idle_backoff' = POLL_INTERVAL_SEC
    /\ ids' = <<>>
    /\ idx' = 1
    /\ tickers' = <<>>
    /\ tix' = 1
    /\ NewCycle(<<>>)
    /\ prevIds' = <<>>
    /\ prevClean' = TRUE

MainLoad ==
    /\ pc = "boot"
    /\ ~LoadRaises(file)
    /\ state' = LoadState(file)
    /\ processed_keys' = ToSet(Get(state', "processed_keys", <<>>))
    /\ idle_backoff' = POLL_INTERVAL_SEC
    /\ pc' = "tick"
    /\ legacyIds' = legacyIds \cup ToSet(Get(ReadDict(file), "processed_ids", <<>>))
    /\ UNCHANGED <<envVars, ids, idx, tickers, tix, saveFor, exitCause, ticks, runVars,
                   written, llmFailed, okRun, completed, cycleHist, prevHist>>

\* line 206: _load_state raises, before the try block of main
MainLoadFail ==
    /\ pc = "boot"
    /\ LoadRaises(file)
    /\ pc' = "load_error"
    /\ exitCause' = "load_error"
    /\ UNCHANGED <<envVars, state, processed_keys, idle_backoff, ids, idx, tickers, tix,
                   saveFor, ticks, runVars, written, llmFailed, okRun, completed,
                   cycleHist, prevHist, legacyIds>>

\* ------------------------------------------------------------------------
\* main: one search (lines 212-229)
\* ------------------------------------------------------------------------

\* line 221 without the ceiling
NextBackoffUncapped(b) == (b * 3) \div 2

\* line 221: min(IDLE_BACKOFF_MAX, int(idle_backoff * 1.5))
NextBackoff(b) == Min(IDLE_BACKOFF_MAX, (b * 3) \div 2)

\* search_messages returns no id: lines 219-226
SearchIdle ==
    /\ pc = "tick"
    /\ ticks < MaxTicks
    /\ ticks' = ticks + 1
    /\ ids' = <<>>
    /\ idx' = 1
    /\ idle_backoff' = NextBackoff(idle_backoff)
    /\ pc' = "tick"
    /\ NewCycle(<<>>)
    /\ prevIds' = <<>>
    /\ prevClean' = TRUE
    /\ UNCHANGED <<envVars, state, processed_keys, tickers, tix, saveFor, exitCause,
                   runVars, written, llmFailed, okRun, completed, legacyIds>>

\* lines 213-217 without line 229
SearchFoundKeepsBackoff ==
    /\ pc = "tick"
    /\ ticks < MaxTicks
    /\ ticks' = ticks + 1
    /\ \E r \in SearchResults \ {<<>>} :
        /\ ids' = r
        /\ NewCycle(r)
    /\ idx' = 1
    /\ idle_backoff' = idle_backoff
    /\ pc' = "msg"
    /\ prevIds' = <<>>
    /\ prevClean' = TRUE
    /\ UNCHANGED <<envVars, state, processed_keys, tickers, tix, saveFor, exitCause,
                   runVars, written, llmFailed, okRun, completed, legacyIds>>

\* search_messages returns ids: lines 213-217, 229
SearchFound ==
    /\ pc = "tick"
    /\ ticks < MaxTicks
    /\ ticks' = ticks + 1
    /\ \E r \in SearchResults \ {<<>>} :
        /\ ids' = r
        /\ NewCycle(r)
    /\ idx' = 1
    /\ idle_backoff' = POLL_INTERVAL_SEC
    /\ pc' = "msg"
    /\ prevIds' = <<>>
    /\ prevClean' = TRUE
    /\ UNCHANGED <<envVars, state, processed_keys, tickers, tix, saveFor, exitCause,
                   runVars, written, llmFailed, okRun, completed, legacyIds>>

\* search_messages raises: nothing in main catches it (the try of line 210
\* has the single handler of line 240)
SearchError ==
    /\ pc = "tick"
    /\ ticks < MaxTicks
    /\ ticks' = ticks + 1
    /\ pc' = "exited"
    /\ exitCause' = "error"
    /\ MemoryGone
    /\ doneRun' = {}
    /\ UNCHANGED <<envVars, restarts, prevExit, finalSave, written, llmFailed, completed,
                   legacyIds>>

\* ------------------------------------------------------------------------
\* _process_one (lines 102-191)
\* ------------------------------------------------------------------------

\* a handler that gives the cycle up instead of returning to its loop
ExceptAbortsCycle(where) ==
    /\ pc' = "sleep"
    /\ raisedIn' = where
    /\ failedMsgs' = failedMsgs \cup {CurMsg}
    /\ cycleClean' = FALSE
    /\ exitCause' = exitCause

\* the handler of lines 189-191: log and return False
Except(where) ==
    /\ pc' = "ret"
    /\ raisedIn' = where
    /\ failedMsgs' = failedMsgs \cup {CurMsg}
    /\ cycleClean' = FALSE
    /\ exitCause' = exitCause

\* a membership test that never finds the key
IsProcessedNever(key, keys) == FALSE

\* a membership test on the message id alone: some key of the message is
\* in the ledger
IsProcessedByMessage(key, keys) ==
    \E k \in keys :
        \E n \in 1..Min(Len(k), Len(key)) :
            /\ k[n] = "#"
            /\ SubSeq(k, 1, n) = SubSeq(key, 1, n)

\* line 166
IsProcessed(key, keys) == key \in keys

\* lines 109-161 with the skipped message entered in the ledger
FetchMessageMarksSkipped ==
    /\ pc = "msg"
    /\ started' = started \cup {CurMsg}
    /\ tickers' = TickersFromSubjectLeading(mailbox[CurMsg], allowed)
    /\ tix' = 1
    /\ pc' = IF tickers' = <<>> THEN "ret" ELSE "unit"
    /\ processed_keys' = IF tickers' = <<>> THEN processed_keys \cup {LegacyKey(CurMsg)}
                         ELSE processed_keys
    /\ raisedIn' = "none"
    /\ UNCHANGED <<envVars, state, idle_backoff, ids, idx, saveFor,
                   exitCause, ticks, runVars, written, llmFailed, okRun, completed,
                   failedMsgs, cycleWrites, cycleClean, repeat, cycleSaved, prevHist,
                   legacyIds>>

\* lines 109-161 without an exception: the message is fetched, its text
\* composed and its tickers extracted; no ticker returns False
FetchMessage ==
    /\ pc = "msg"
    /\ started' = started \cup {CurMsg}
    /\ tickers' = TickersFromSubjectLeading(mailbox[CurMsg], allowed)
    /\ tix' = 1
    /\ pc' = IF tickers' = <<>> THEN "ret" ELSE "unit"
    /\ raisedIn' = "none"
    /\ UNCHANGED <<envVars, state, processed_keys, idle_backoff, ids, idx, saveFor,
                   exitCause, ticks, runVars, written, llmFailed, okRun, completed,
                   failedMsgs, cycleWrites, cycleClean, repeat, cycleSaved, prevHist,
                   legacyIds>>

\* get_message, _hdr, extract_text_from_message or extract_urls_from_message
\* raises
FetchMessageFail ==
    /\ pc = "msg"
    /\ started' = started \cup {CurMsg}
    /\ tickers' = <<>>
    /\ tix' = 1
    /\ Except("fetch")
    /\ UNCHANGED <<envVars, state, processed_keys, idle_backoff, ids, idx, saveFor,
                   ticks, runVars, written, llmFailed, okRun, completed,
                   cycleWrites, repeat, cycleSaved, prevHist, legacyIds>>

\* lines 164-168: the key is in the ledger, continue
UnitSkip ==
    /\ pc = "unit"
    /\ tix <= Len(tickers)
    /\ IsProcessed(CurKey, processed_keys)
    /\ tix' = tix + 1
    /\ UNCHANGED <<envVars, pc, state, processed_keys, idle_backoff, ids, idx, tickers,
                   saveFor, exitCause, ticks, runVars, written, llmFailed, okRun, completed,
                   cycleHist, prevHist, legacyIds>>

\* lines 164-174 with the key entered in the ledger before the work
UnitStartMarksFirst ==
    /\ pc = "unit"
    /\ tix <= Len(tickers)
    /\ ~IsProcessed(CurKey, processed_keys)
    /\ processed_keys' = processed_keys \cup {CurKey}
    /\ pc' = "llm"
    /\ UNCHANGED <<envVars, state, idle_backoff, ids, idx, tickers, tix,
                   saveFor, exitCause, ticks, runVars, written, llmFailed, okRun, completed,
                   cycleHist, prevHist, legacyIds>>

\* lines 164-174: the key is not in the ledger
UnitStart ==
    /\ pc = "unit"
    /\ tix <= Len(tickers)
    /\ ~IsProcessed(CurKey, processed_keys)
    /\ pc' = "llm"
    /\ UNCHANGED <<envVars, state, processed_keys, idle_backoff, ids, idx, tickers, tix,
                   saveFor, exitCause, ticks, runVars, written, llmFailed, okRun, completed,
                   cycleHist, prevHist, legacyIds>>

\* lines 186-187: the loop over the tickers is over
UnitsDone ==
    /\ pc = "unit"
    /\ tix > Len(tickers)
    /\ pc' = "ret"
    /\ UNCHANGED <<envVars, state, processed_keys, idle_backoff, ids, idx, tickers, tix,
                   saveFor, exitCause, ticks, runVars, written, llmFailed, okRun, completed,
                   cycleHist, prevHist, legacyIds>>

\* line 175: render_markdown returns
Summarize ==
    /\ pc = "llm"
    /\ pc' = "write"
    /\ llmFailed' = llmFailed \ {CurKey}
    /\ UNCHANGED <<envVars, state, processed_keys, idle_backoff, ids, idx, tickers, tix,
                   saveFor, exitCause, ticks, runVars, written, okRun, completed,
                   cycleHist, prevHist, legacyIds>>

\* a handler of the failure that records the unit as processed
SummarizeFailMarks ==
    /\ pc = "llm"
    /\ llmFailed' = llmFailed \cup {CurKey}
    /\ processed_keys' = processed_keys \cup {CurKey}
    /\ state' = Put(state, "processed_keys", Sorted(processed_keys'))
    /\ Except("unit")
    /\ UNCHANGED <<envVars, idle_backoff, ids, idx, tickers, tix,
                   saveFor, ticks, runVars, written, okRun, completed,
                   started, cycleWrites, repeat, cycleSaved, prevHist, legacyIds>>

\* line 175: render_markdown raises (text too short, or the LLM layer)
SummarizeFail ==
    /\ pc = "llm"
    /\ llmFailed' = llmFailed \cup {CurKey}
    /\ Except("unit")
    /\ UNCHANGED <<envVars, state, processed_keys, idle_backoff, ids, idx, tickers, tix,
                   saveFor, ticks, runVars, written, okRun, completed,
                   started, cycleWrites, repeat, cycleSaved, prevHist, legacyIds>>

\* line 178: write_markdown returns
WriteReport ==
    /\ pc = "write"
    /\ written' = written \cup {CurKey}
    /\ UNCHANGED llmFailed
    /\ okRun' = okRun \cup {CurKey}
    /\ cycleWrites' = cycleWrites \cup {CurKey}
    /\ pc' = "mark"
    /\ UNCHANGED <<envVars, state, processed_keys, idle_backoff, ids, idx, tickers, tix,
                   saveFor, exitCause, ticks, runVars, completed,
                   started, failedMsgs, raisedIn, cycleClean, repeat, cycleSaved, prevHist, legacyIds>>

\* line 178: write_markdown raises
WriteReportFail ==
    /\ pc = "write"
    /\ written' = written \cup {CurKey}
    /\ UNCHANGED llmFailed
    /\ cycleWrites' = cycleWrites \cup {CurKey}
    /\ Except("unit")
    /\ UNCHANGED <<envVars, state, processed_keys, idle_backoff, ids, idx, tickers, tix,
                   saveFor, ticks, runVars, okRun, completed,
                   started, repeat, cycleSaved, prevHist, legacyIds>>

\* lines 181-182 without the insertion of line 181
MarkProcessedForgets ==
    /\ pc = "mark"
    /\ processed_keys' = processed_keys
    /\ state' = Put(state, "processed_keys", Sorted(processed_keys'))
    /\ saveFor' = "unit"
    /\ pc' = "save_open"
    /\ UNCHANGED <<envVars, idle_backoff, ids, idx, tickers, tix, exitCause, ticks,
                   runVars, written, llmFailed, okRun, completed, cycleHist, prevHist,
                   legacyIds>>

\* lines 181-182 without the assignment of line 182
MarkProcessedNoStateUpdate ==
    /\ pc = "mark"
    /\ processed_keys' = processed_keys \cup {CurKey}
    /\ state' = state
    /\ saveFor' = "unit"
    /\ pc' = "save_open"
    /\ UNCHANGED <<envVars, idle_backoff, ids, idx, tickers, tix, exitCause, ticks,
                   runVars, written, llmFailed, okRun, completed, cycleHist, prevHist,
                   legacyIds>>

\* lines 181-182
MarkProcessed ==
    /\ pc = "mark"
    /\ processed_keys' = processed_keys \cup {CurKey}
    /\ state' = Put(state, "processed_keys", Sorted(processed_keys'))
    /\ saveFor' = "unit"
    /\ pc' = "save_open"
    /\ UNCHANGED <<envVars, idle_backoff, ids, idx, tickers, tix, exitCause, ticks,
                   runVars, written, llmFailed, okRun, completed, cycleHist, prevHist,
                   legacyIds>>

\* ------------------------------------------------------------------------
\* _save_state (lines 97-99), called by _process_one (line 183) and by the
\* interrupt handler of main (line 243)
\* ------------------------------------------------------------------------

\* where an exception of _save_state goes: to the handler of _process_one
\* when a unit is being saved, out of main when the interrupt handler saves
SaveRaises ==
    \/ /\ saveFor = "unit"
       /\ Except("unit")
       /\ UNCHANGED finalSave
    \/ /\ saveFor = "final"
       /\ pc' = "exited"
       /\ finalSave' = "raised"
       /\ UNCHANGED <<raisedIn, failedMsgs, cycleClean, exitCause>>

\* line 98: open(STATE_FILE, "w") truncates the file
SaveOpen ==
    /\ pc = "save_open"
    /\ file' = TornFile
    /\ cycleSaved' = TRUE
    /\ pc' = "save_dump"
    /\ UNCHANGED <<cfgVars, state, processed_keys, idle_backoff, ids, idx,
                   tickers, tix, saveFor, exitCause, ticks, runVars, written, llmFailed,
                   okRun, completed, started, failedMsgs, raisedIn, cycleWrites,
                   cycleClean, repeat, prevHist, legacyIds>>

\* line 98: open raises, the file is as it was
SaveOpenFail ==
    /\ pc = "save_open"
    /\ SaveRaises
    /\ UNCHANGED <<envVars, state, processed_keys, idle_backoff, ids, idx, tickers, tix,
                   saveFor, ticks, restarts, prevExit, doneRun, written, llmFailed, okRun,
                   completed, started, cycleWrites, repeat, cycleSaved, prevHist, legacyIds>>

\* line 99: json.dump writes the whole dict and the file is closed;
\* _save_state returns to line 184 or to line 244
SaveDump ==
    /\ pc = "save_dump"
    /\ file' = JsonFile(state)
    /\ \/ /\ saveFor = "unit"
          /\ completed' = completed \cup {CurKey}
          /\ doneRun' = doneRun \cup {CurKey}
          /\ pc' = "saved"
          /\ UNCHANGED finalSave
       \/ /\ saveFor = "final"
          /\ pc' = "exited"
          /\ finalSave' = "done"
          /\ UNCHANGED <<completed, doneRun>>
    /\ UNCHANGED <<cfgVars, state, processed_keys, idle_backoff, ids, idx,
                   tickers, tix, saveFor, exitCause, ticks, restarts, prevExit, written, llmFailed,
                   okRun, cycleHist, prevHist, legacyIds>>

\* line 184: the unit is done, on to the next ticker
UnitDone ==
    /\ pc = "saved"
    /\ tix' = tix + 1
    /\ pc' = "unit"
    /\ UNCHANGED <<envVars, state, processed_keys, idle_backoff, ids, idx, tickers,
                   saveFor, exitCause, ticks, runVars, written, llmFailed, okRun, completed,
                   cycleHist, prevHist, legacyIds>>

\* line 99: the write raises, the file stays incomplete
SaveDumpFail ==
    /\ pc = "save_dump"
    /\ SaveRaises
    /\ UNCHANGED <<envVars, state, processed_keys, idle_backoff, ids, idx, tickers, tix,
                   saveFor, ticks, restarts, prevExit, doneRun, written, llmFailed, okRun,
                   completed, started, cycleWrites, repeat, cycleSaved, prevHist, legacyIds>>

\* ------------------------------------------------------------------------
\* main: after _process_one, and the end of a cycle
\* ------------------------------------------------------------------------

\* lines 230-233 with line 233 reading the legacy list of the dict
ProcessOneReturnWrongList ==
    /\ pc = "ret"
    /\ processed_keys' = ToSet(Get(state, "processed_ids", <<>>))
    /\ idx' = idx + 1
    /\ pc' = IF idx' > Len(ids) THEN "sleep" ELSE "msg"
    /\ tickers' = <<>>
    /\ tix' = 1
    /\ raisedIn' = "none"
    /\ UNCHANGED <<envVars, state, idle_backoff, ids, saveFor, exitCause,
                   ticks, runVars, written, llmFailed, okRun, completed, started, failedMsgs,
                   cycleWrites, cycleClean, repeat, cycleSaved, prevHist, legacyIds>>

\* lines 230-233: _process_one has returned; the next id, or the sleep
ProcessOneReturn ==
    /\ pc = "ret"
    /\ processed_keys' = ToSet(Get(state, "processed_keys", <<>>))
    /\ idx' = idx + 1
    /\ pc' = IF idx' > Len(ids) THEN "sleep" ELSE "msg"
    /\ tickers' = <<>>
    /\ tix' = 1
    /\ raisedIn' = "none"
    /\ UNCHANGED <<envVars, state, idle_backoff, ids, saveFor, exitCause,
                   ticks, runVars, written, llmFailed, okRun, completed, started, failedMsgs,
                   cycleWrites, cycleClean, repeat, cycleSaved, prevHist, legacyIds>>

\* lines 236-238
Sleep ==
    /\ pc = "sleep"
    /\ pc' = "tick"
    /\ prevIds' = ids
    /\ prevClean' = cycleClean
    /\ ids' = <<>>
    /\ idx' = 1
    /\ NewCycle(<<>>)
    /\ UNCHANGED <<envVars, state, processed_keys, idle_backoff, tickers, tix,
                   saveFor, exitCause, ticks, runVars, written, llmFailed, okRun, completed,
                   legacyIds>>

\* a handler that leaves main without line 243
InterruptNoSave ==
    /\ \/ pc \in LoopPcs
       \/ (pc \in {"save_open", "save_dump"} /\ saveFor = "unit")
    /\ state' = Put(state, "processed_keys", Sorted(processed_keys))
    /\ saveFor' = "final"
    /\ exitCause' = "interrupt"
    /\ pc' = "exited"
    /\ LoopLeft
    /\ UNCHANGED <<envVars, processed_keys, ticks, runVars, written, llmFailed, okRun,
                   completed, legacyIds>>

\* lines 240-243: KeyboardInterrupt anywhere in the try block
Interrupt ==
    /\ \/ pc \in LoopPcs
       \/ (pc \in {"save_open", "save_dump"} /\ saveFor = "unit")
    /\ state' = Put(state, "processed_keys", Sorted(processed_keys))
    /\ saveFor' = "final"
    /\ exitCause' = "interrupt"
    /\ pc' = "save_open"
    /\ LoopLeft
    /\ UNCHANGED <<envVars, processed_keys, ticks, runVars, written, llmFailed, okRun,
                   completed, legacyIds>>

\* ------------------------------------------------------------------------
\* The process dies and is started again
\* ------------------------------------------------------------------------

\* the process is killed (power loss, SIGKILL): whatever is on disk stays
Crash ==
    /\ pc \notin {"exited", "down", "load_error"}
    /\ pc' = "down"
    /\ exitCause' = IF exitCause = "interrupt" THEN "crash_exit" ELSE "crash"
    /\ MemoryGone
    /\ doneRun' = {}
    /\ UNCHANGED <<envVars, ticks, restarts, prevExit, finalSave, written, llmFailed, completed,
                   legacyIds>>

\* a new process
Restart ==
    /\ pc \in {"exited", "down", "load_error"}
    /\ restarts < MaxRestarts
    /\ restarts' = restarts + 1
    /\ prevExit' = exitCause
    /\ finalSave' = "none"
    /\ doneRun' = {}
    /\ pc' = "boot"
    /\ exitCause' = "none"
    /\ MemoryGone
    /\ UNCHANGED <<envVars, ticks, written, llmFailed, completed, legacyIds>>

Next ==
    \/ MainLoad
    \/ MainLoadFail
    \/ SearchIdle
    \/ SearchFound
    \/ SearchError
    \/ FetchMessage
    \/ FetchMessageFail
    \/ UnitSkip
    \/ UnitStart
    \/ UnitsDone
    \/ Summarize
    \/ SummarizeFail
    \/ WriteReport
    \/ WriteReportFail
    \/ MarkProcessed
    \/ SaveOpen
    \/ SaveOpenFail
    \/ SaveDump
    \/ SaveDumpFail
    \/ UnitDone
    \/ ProcessOneReturn
    \/ Sleep
    \/ Interrupt
    \/ Crash
    \/ Restart

Spec == Init /\ [][Next]_vars

\* ------------------------------------------------------------------------
\* Dates (datetime_utils.py)
\* ------------------------------------------------------------------------

\* days of November 2025 the instants of the model fall on
MaxDay == 2

\* Optional values: None, or a value
None == [some |-> FALSE]

\* an instant in UTC: day d of November 2025, hour h
DateTime(d, h) == [some |-> TRUE, d |-> d, h |-> h]

DateTimes == { DateTime(d, h) : d \in 1..MaxDay, h \in {0, 15, 23} }

\* internalDate in milliseconds, counted from 2025-11-01T00:00Z
Millis(n) == [some |-> TRUE, ms |-> n]

InternalDates ==
    { Millis((d - 1) * 86400000 + h * 3600000 + 1234) : d \in 1..MaxDay, h \in {3, 20} }

\* "%02d"
Pad2(n) == <<Digits[(n \div 10) + 1], Digits[(n % 10) + 1]>>

\* to_kst: Asia/Seoul is UTC+9 the whole year
ToKst(dt) == [d |-> dt.d + ((dt.h + 9) \div 24), h |-> (dt.h + 9) % 24]

\* fmt_kst: "%Y.%m.%d. %H:%M"
FmtKst(dt) ==
    <<"2","0","2","5",".","1","1",".">> \o Pad2(ToKst(dt).d) \o <<".", " ">>
        \o Pad2(ToKst(dt).h) \o <<":", "0", "0">>

\* datetime.fromtimestamp(ms / 1000, tz=timezone.utc)
FromTimestampMs(ms) == DateTime(1 + (ms \div 86400000), (ms \div 3600000) % 24)

\* bool(x) of an Optional[datetime] or Optional[int]
Truthy(x) == x.some /\ ("ms" \in DOMAIN x => x.ms # 0)

\* choose_best_date with the header date tried after the internal one
ChooseBestDateGmailFirst(article_dt, email_hdr_dt, gmail_internal_ms) ==
    IF Truthy(article_dt) THEN <<FmtKst(article_dt), "article">>
    ELSE IF Truthy(gmail_internal_ms)
    THEN <<FmtKst(FromTimestampMs(gmail_internal_ms.ms)), "gmail">>
    ELSE IF Truthy(email_hdr_dt) THEN <<FmtKst(email_hdr_dt), "email">>
    ELSE <<<<>>, "unknown">>

\* choose_best_date
ChooseBestDate(article_dt, email_hdr_dt, gmail_internal_ms) ==
    IF Truthy(article_dt) THEN <<FmtKst(article_dt), "article">>
    ELSE IF Truthy(email_hdr_dt) THEN <<FmtKst(email_hdr_dt), "email">>
    ELSE IF Truthy(gmail_internal_ms)
    THEN <<FmtKst(FromTimestampMs(gmail_internal_ms.ms)), "gmail">>
    ELSE <<<<>>, "unknown">>

\* ------------------------------------------------------------------------
\* The pure functions called on their own
\* ------------------------------------------------------------------------

\* subjects _tickers_from_subject_leading is called with
TestSubjects ==
    {
      \* "NVDA: up"
      <<"N", "V", "D", "A", ":", " ", "u", "p">>,
      \* "NVDA, PLTR: up"
      <<"N", "V", "D", "A", ",", " ", "P", "L", "T", "R", ":", " ", "u", "p">>,
      \* "Market wrap"
      <<"M", "a", "r", "k", "e", "t", " ", "w", "r", "a", "p">>,
      \* "PLTR, NVDA: up"
      <<"P", "L", "T", "R", ",", " ", "N", "V", "D", "A", ":", " ", "u", "p">>,
      \* "AA, AA: up"
      <<"A", "A", ",", " ", "A", "A", ":", " ", "u", "p">>,
      \* "A: up"
      <<"A", ":", " ", "u", "p">>,
      \* "TSLA mdash Q3"
      <<"T", "S", "L", "A", " ", "mdash", " ", "Q", "3">>,
      \* "nvda: up"
      <<"n", "v", "d", "a", ":", " ", "u", "p">>,
      \* "AB/CD - up"
      <<"A", "B", "/", "C", "D", " ", "-", " ", "u", "p">>,
      \* "ABCDEF: up"
      <<"A", "B", "C", "D", "E", "F", ":", " ", "u", "p">>,
      \* "A, B: up"
      <<"A", ",", " ", "B", ":", " ", "u", "p">>,
      \* "  NVDA: up"
      <<" ", " ", "N", "V", "D", "A", ":", " ", "u", "p">>,
      \* "NVDA:up"
      <<"N", "V", "D", "A", ":", "u", "p">>,
      \* "NVDA - PLTR: up"
      <<"N", "V", "D", "A", " ", "-", " ", "P", "L", "T", "R", ":", " ", "u", "p">>,
      \* "AI & ML: up"
      <<"A", "I", " ", "&", " ", "M", "L", ":", " ", "u", "p">>,
      \* ""
      <<>>,
      \* "NVDA, A: up"
      <<"N", "V", "D", "A", ",", " ", "A", ":", " ", "u", "p">> }

\* values of ALLOWED_TICKERS; the empty set is "no limit"
AllowLists ==
    { {},
      {<<"N","V","D","A">>},
      {<<"P","L","T","R">>, <<"T","S","L","A">>},
      {<<"A">>} }

TickerCalls ==
    { [fn |-> "tickers", subject |-> sj, allowed |-> al, done |-> FALSE, result |-> <<>>] :
        sj \in TestSubjects, al \in AllowLists }

DateCalls ==
    { [fn |-> "choose_best_date", article_dt |-> a, email_hdr_dt |-> e,
       gmail_internal_ms |-> g, done |-> FALSE, result |-> <<>>] :
        a \in DateTimes \cup {None}, e \in DateTimes \cup {None},
        g \in InternalDates \cup {None} }

\* the variables of the poller process
restVars == <<pc, state, processed_keys, ids, idx, tickers, tix, saveFor,
              exitCause, ticks, restarts, prevExit, finalSave, doneRun, written,
              llmFailed, okRun, completed, started, failedMsgs, raisedIn, cycleWrites,
              cycleClean, cycleSaved, prevIds, prevClean, repeat, legacyIds>>
procVars == <<idle_backoff, restVars>>

InitCalls ==
    /\ call \in TickerCalls \cup DateCalls
    /\ file = NoFile
    /\ mailbox \in Mailboxes
    /\ allowed = {}
    /\ comp = NoComp
    /\ naps = NoNaps
    /\ ProcessInit

CallTickers ==
    /\ call.fn = "tickers"
    /\ ~call.done
    /\ call' = [call EXCEPT !.done = TRUE,
                             !.result = TickersFromSubjectLeading(call.subject, call.allowed)]
    /\ UNCHANGED <<file, mailbox, allowed, comp, naps, procVars>>

CallChooseBestDate ==
    /\ call.fn = "choose_best_date"
    /\ ~call.done
    /\ call' = [call EXCEPT !.done = TRUE,
                             !.result = ChooseBestDate(call.article_dt, call.email_hdr_dt,
                                                       call.gmail_internal_ms)]
    /\ UNCHANGED <<file, mailbox, allowed, comp, naps, procVars>>

NextCalls ==
    \/ CallTickers
    \/ CallChooseBestDate

SpecCalls == InitCalls /\ [][NextCalls]_vars

\* ------------------------------------------------------------------------
\* The composition of one message and its units on its own (_process_one,
\* lines 109-187)
\* ------------------------------------------------------------------------

\* candidate URLs a message carries
MaxUrls == 4

\* MIN_BODY_LEN (default of the environment variable)
MIN_BODY_LEN == 120

\* the Date header of a message: none, one parsedate_to_datetime rejects,
\* or one it parses to an instant
HdrAbsent == [kind |-> "absent"]
HdrBad == [kind |-> "bad"]
HdrDate(dt) == [kind |-> "date", dt |-> dt]

\* parse_rfc2822_date with a default instant in place of None
ParseRfc2822Default(hdr) == IF hdr.kind = "date" THEN hdr.dt ELSE DateTime(1, 0)

\* parse_rfc2822_date, as extract_email_dates calls it (line 238)
ParseRfc2822(hdr) == IF hdr.kind = "date" THEN hdr.dt ELSE None

\* fetch_article_markdown for one URL: it raises, returns None, or returns
\* (title, markdown, pub_kst) with pub_kst "" when the page gives no date
ArtRaise == [kind |-> "raise"]
ArtNone == [kind |-> "none"]
Art(pub_kst) == [kind |-> "article", pub_kst |-> pub_kst]

FetchOutcomes == { ArtRaise, ArtNone, Art(<<>>), Art(FmtKst(DateTime(1, 0))) }

RECURSIVE SeqsUpTo(_, _)
\* the sequences over S of length at most n
SeqsUpTo(S, n) ==
    IF n = 0 THEN { <<>> }
    ELSE SeqsUpTo(S, n - 1) \cup
         { Append(q, x) : q \in { r \in SeqsUpTo(S, n - 1) : Len(r) = n - 1 }, x \in S }

\* the raw text of the message, kept as one token
RawText == <<"raw">>

\* f"\n\n[... ] {u}\n\n{md_article}" for the URL at position i (line 142)
ArticleBlock(i) == <<"\n", "\n", "[link]", " ", "url", Digits[i + 1], "\n", "\n", "md">>

\* '미확인'
Undetermined == <<"mi", "hwag", "in">>

\* line 153 without the placeholder
DateMarkerNoPlaceholder(display, src) ==
    <<"[DETECTED_DATE_KST:">> \o display \o <<"|SOURCE:", src, "]", "\n">>

\* line 153: f"[DETECTED_DATE_KST:{best_date_display or '미확인'}|SOURCE:{best_src}]\n"
DateMarker(display, src) ==
    <<"[DETECTED_DATE_KST:">> \o (IF display # <<>> THEN display ELSE Undetermined)
        \o <<"|SOURCE:", src, "]", "\n">>

\* "TSLA mdash Q3"
SubjOne == <<"T","S","L","A"," ","mdash"," ","Q","3">>

\* the id of the message composed
ComposedId == M1

\* the processed_keys _process_one is called with: nothing, or the unit of
\* SubjOne
Ledgers == { {}, {Key(ComposedId, <<"T","S","L","A">>)} }

\* the key of the unit the ticker loop is at (line 165)
CompKey == Key(ComposedId, comp.tickers[comp.tix])

\* the messages composed: the URLs of a message whose body is long enough
\* are never read, one of them is enough
Compositions ==
    { c \in
      { [at |-> "dates", subject |-> sj, hdr |-> hd, internalDate |-> ind,
       bodyLen |-> bl, urls |-> us,
       dt_email_hdr |-> None, internal_ms |-> None, composed_text |-> <<>>,
       best_date_display |-> <<>>, best_src |-> "unknown", ui |-> 1, fetched |-> 0,
       tickers |-> <<>>,
       dates_error |-> FALSE, ledger0 |-> lg, processed_keys |-> lg, tix |-> 1, fetch_log |-> <<>>, llm_texts |-> <<>>,
       reports |-> <<>>] :
        sj \in {SubjOne, SubjNone},
        hd \in {HdrAbsent, HdrBad, HdrDate(DateTime(1, 15))},
        ind \in {None, Millis(3 * 3600000 + 1234)},
        bl \in {50, MIN_BODY_LEN},
        us \in SeqsUpTo(FetchOutcomes, MaxUrls),
        lg \in Ledgers } :
        /\ c.bodyLen < MIN_BODY_LEN \/ Len(c.urls) <= 1
        /\ c.ledger0 = {} \/ c.subject = SubjOne }

InitCompose ==
    /\ comp \in Compositions
    /\ file = NoFile
    /\ mailbox \in Mailboxes
    /\ allowed = {}
    /\ call = NoCall
    /\ naps = NoNaps
    /\ ProcessInit

\* lines 117-119
ExtractEmailDates ==
    /\ comp.at = "dates"
    /\ comp' = [comp EXCEPT !.at = "body",
                            !.dt_email_hdr = ParseRfc2822(comp.hdr),
                            !.internal_ms = comp.internalDate]
    /\ UNCHANGED <<file, mailbox, allowed, call, naps, procVars>>

\* lines 120-122: extract_email_dates raises
ExtractEmailDatesFail ==
    /\ comp.at = "dates"
    /\ comp' = [comp EXCEPT !.at = "body",
                            !.dates_error = TRUE,
                            !.dt_email_hdr = None,
                            !.internal_ms = None]
    /\ UNCHANGED <<file, mailbox, allowed, call, naps, procVars>>

\* lines 125-132
ComposeBody ==
    /\ comp.at = "body"
    /\ comp' = [comp EXCEPT !.at = IF comp.bodyLen < MIN_BODY_LEN THEN "fetch" ELSE "date",
                            !.composed_text = RawText,
                            !.best_date_display = <<>>,
                            !.best_src = "unknown",
                            !.ui = 1]
    /\ UNCHANGED <<file, mailbox, allowed, call, naps, procVars>>

\* lines 133-146 without lines 144-145
FetchArticleIgnoresDate ==
    /\ comp.at = "fetch"
    /\ comp.ui <= Min(Len(comp.urls), 3)
    /\ comp' =
        IF comp.urls[comp.ui].kind = "article"
        THEN [comp EXCEPT !.at = "date",
                          !.fetched = comp.fetched + 1,
                          !.fetch_log = Append(comp.fetch_log, comp.ui),
                          !.composed_text = comp.composed_text \o ArticleBlock(comp.ui)]
        ELSE [comp EXCEPT !.fetched = comp.fetched + 1,
                          !.fetch_log = Append(comp.fetch_log, comp.ui),
                          !.ui = comp.ui + 1]
    /\ UNCHANGED <<file, mailbox, allowed, call, naps, procVars>>

\* lines 133-146 with "for u in urls"
FetchArticleNoCap ==
    /\ comp.at = "fetch"
    /\ comp.ui <= Len(comp.urls)
    /\ comp' =
        IF comp.urls[comp.ui].kind = "article"
        THEN [comp EXCEPT !.at = "date",
                          !.fetched = comp.fetched + 1,
                          !.fetch_log = Append(comp.fetch_log, comp.ui),
                          !.composed_text = comp.composed_text \o ArticleBlock(comp.ui),
                          !.best_date_display =
                              IF comp.urls[comp.ui].pub_kst # <<>>
                              THEN comp.urls[comp.ui].pub_kst ELSE comp.best_date_display,
                          !.best_src =
                              IF comp.urls[comp.ui].pub_kst # <<>>
                              THEN "article" ELSE comp.best_src]
        ELSE [comp EXCEPT !.fetched = comp.fetched + 1,
                          !.fetch_log = Append(comp.fetch_log, comp.ui),
                          !.ui = comp.ui + 1]
    /\ UNCHANGED <<file, mailbox, allowed, call, naps, procVars>>

\* lines 133-146: one turn of the loop over urls[:3]
FetchArticle ==
    /\ comp.at = "fetch"
    /\ comp.ui <= Min(Len(comp.urls), 3)
    /\ comp' =
        IF comp.urls[comp.ui].kind = "article"
        THEN [comp EXCEPT !.at = "date",
                          !.fetched = comp.fetched + 1,
                          !.fetch_log = Append(comp.fetch_log, comp.ui),
                          !.composed_text = comp.composed_text \o ArticleBlock(comp.ui),
                          !.best_date_display =
                              IF comp.urls[comp.ui].pub_kst # <<>>
                              THEN comp.urls[comp.ui].pub_kst ELSE comp.best_date_display,
                          !.best_src =
                              IF comp.urls[comp.ui].pub_kst # <<>>
                              THEN "article" ELSE comp.best_src]
        ELSE [comp EXCEPT !.fetched = comp.fetched + 1,
                          !.fetch_log = Append(comp.fetch_log, comp.ui),
                          !.ui = comp.ui + 1]
    /\ UNCHANGED <<file, mailbox, allowed, call, naps, procVars>>

\* line 133: urls[:3] is exhausted
FetchDone ==
    /\ comp.at = "fetch"
    /\ comp.ui > Min(Len(comp.urls), 3)
    /\ comp' = [comp EXCEPT !.at = "date"]
    /\ UNCHANGED <<file, mailbox, allowed, call, naps, procVars>>

\* lines 149-151
ResolveDate ==
    /\ comp.at = "date"
    /\ comp' =
        IF comp.best_date_display = <<>>
        THEN [comp EXCEPT !.at = "marker",
                          !.best_date_display =
                              ChooseBestDate(None, comp.dt_email_hdr, comp.internal_ms)[1],
                          !.best_src =
                              ChooseBestDate(None, comp.dt_email_hdr, comp.internal_ms)[2]]
        ELSE [comp EXCEPT !.at = "marker"]
    /\ UNCHANGED <<file, mailbox, allowed, call, naps, procVars>>

\* line 153
InjectMarker ==
    /\ comp.at = "marker"
    /\ comp' = [comp EXCEPT !.at = "tickers",
                            !.composed_text =
                                DateMarker(comp.best_date_display, comp.best_src)
                                    \o comp.composed_text]
    /\ UNCHANGED <<file, mailbox, allowed, call, naps, procVars>>

\* lines 156-161: no ticker skips the message, else the units follow with
\* composed_text as text_for_llm (line 172)
ExtractTickers ==
    /\ comp.at = "tickers"
    /\ comp' = [comp EXCEPT !.tickers = TickersFromSubjectLeading(comp.subject, allowed),
                            !.at = IF TickersFromSubjectLeading(comp.subject, allowed) = <<>>
                                   THEN "skipped" ELSE "units"]
    /\ UNCHANGED <<file, mailbox, allowed, call, naps, procVars>>

\* lines 164-168: the unit is in the ledger
ComposeUnitSkip ==
    /\ comp.at = "units"
    /\ comp.tix <= Len(comp.tickers)
    /\ CompKey \in comp.processed_keys
    /\ comp' = [comp EXCEPT !.tix = comp.tix + 1]
    /\ UNCHANGED <<file, mailbox, allowed, call, naps, procVars>>

\* lines 172-184: render_markdown on composed_text, write_markdown, mark
\* and save, all returning
ComposeUnit ==
    /\ comp.at = "units"
    /\ comp.tix <= Len(comp.tickers)
    /\ CompKey \notin comp.processed_keys
    /\ comp' = [comp EXCEPT !.llm_texts = Append(comp.llm_texts, comp.composed_text),
                            !.reports = Append(comp.reports, CompKey),
                            !.processed_keys = comp.processed_keys \cup {CompKey},
                            !.tix = comp.tix + 1]
    /\ UNCHANGED <<file, mailbox, allowed, call, naps, procVars>>

\* lines 175, 189-191: render_markdown raises and _process_one returns False
ComposeUnitFail ==
    /\ comp.at = "units"
    /\ comp.tix <= Len(comp.tickers)
    /\ CompKey \notin comp.processed_keys
    /\ comp' = [comp EXCEPT !.llm_texts = Append(comp.llm_texts, comp.composed_text),
                            !.at = "failed"]
    /\ UNCHANGED <<file, mailbox, allowed, call, naps, procVars>>

\* lines 186-187: the loop over tickers is over
ComposeReturn ==
    /\ comp.at = "units"
    /\ comp.tix > Len(comp.tickers)
    /\ comp' = [comp EXCEPT !.at = "returned"]
    /\ UNCHANGED <<file, mailbox, allowed, call, naps, procVars>>

NextCompose ==
    \/ ExtractEmailDates
    \/ ExtractEmailDatesFail
    \/ ComposeBody
    \/ FetchArticle
    \/ FetchDone
    \/ ResolveDate
    \/ InjectMarker
    \/ ExtractTickers
    \/ ComposeUnitSkip
    \/ ComposeUnit
    \/ ComposeUnitFail
    \/ ComposeReturn

SpecCompose == InitCompose /\ [][NextCompose]_vars

\* ------------------------------------------------------------------------
\* The sleeps of main on their own (lines 208-238)
\* ------------------------------------------------------------------------

InitBackoff ==
    /\ idle_backoff = POLL_INTERVAL_SEC
    /\ naps = NoNaps
    /\ file = NoFile
    /\ mailbox \in Mailboxes
    /\ allowed = {}
    /\ call = NoCall
    /\ comp = NoComp
    /\ ProcessInit

\* lines 219-226: a cycle whose search returns no id; the jitter is
\* random.randint(0, min(5, sleep_s))
IdleCycle ==
    \E jitter \in 0..Min(5, NextBackoff(idle_backoff)) :
        /\ naps' = [sleep_s |-> NextBackoff(idle_backoff),
                    slept |-> NextBackoff(idle_backoff) + jitter,
                    prev_sleep_s |-> naps.sleep_s,
                    prev_slept |-> naps.slept]
        /\ idle_backoff' = NextBackoff(idle_backoff)
        /\ UNCHANGED <<file, mailbox, allowed, call, comp, restVars>>

\* lines 229-238: a cycle whose search returns ids ends the run of idle
\* cycles
ActiveCycle ==
    /\ idle_backoff' = POLL_INTERVAL_SEC
    /\ naps' = NoNaps
    /\ UNCHANGED <<file, mailbox, allowed, call, comp, restVars>>

NextBackoffLoop ==
    \/ IdleCycle
    \/ ActiveCycle

SpecBackoff == InitBackoff /\ [][NextBackoffLoop]_vars

\* ------------------------------------------------------------------------
\* Properties
\* ------------------------------------------------------------------------

\* the key set a load of the file on disk gives
OnDisk == ToSet(LoadState(file)["processed_keys"])

\* C1: whenever render_markdown or write_markdown is about to be called for
\* a unit, the key of the unit is not in the ledger: neither in the set the
\* process holds nor in the one a load of the file would give.
C1_NoReprocess ==
    pc \in {"llm", "write"} => (CurKey \notin processed_keys /\ CurKey \notin OnDisk)

\* C1: after a restart that loaded the file, a unit written by the process
\* before is up again and has been passed over.
C1_Witness ==
    /\ pc = "unit"
    /\ restarts >= 1
    /\ tix = 2
    /\ okRun = {}
    /\ Key(CurMsg, tickers[1]) \in processed_keys \cap written

\* C2: after a crash in a cycle, a restart and the load, the ledger holds
\* every unit whose save had returned before the crash.
C2_CrashKeepsCompleted ==
    (pc \in LoopPcs /\ prevExit = "crash") => completed \subseteq processed_keys

\* C3: write_markdown is called at most once for a unit, over all runs.
C3_WriterCalledOnce ==
    [][(pc = "write" /\ pc' \in {"mark", "ret"}) => CurKey \notin written]_vars

\* C3 as amended: in one run of the process write_markdown returns at most
\* once for a unit.
C3_WriterReturnsOncePerRun ==
    [][(pc = "write" /\ pc' = "mark") => CurKey \notin okRun]_vars

\* C3: a unit written in this run is up again in a later cycle.
C3_Witness ==
    /\ pc = "unit"
    /\ tix <= Len(tickers)
    /\ CurKey \in okRun

\* C4: no unit of a message whose id a load found in processed_ids is
\* summarized or written.
C4_LegacyNotReprocessed ==
    pc \in {"llm", "write"} => CurMsg \notin legacyIds

\* the file holds nothing but a legacy processed_ids list
LegacyOnly(f) == f.kind = "json" /\ DOMAIN f.st = {"processed_ids"}

\* the file holds a processed_keys list and no legacy id
Persisted(f) ==
    /\ f.kind = "json"
    /\ "processed_keys" \in DOMAIN f.st
    /\ Get(f.st, "processed_ids", <<>>) = <<>>

\* C5: a ledger just loaded from a file that holds only legacy ids is
\* exactly their keys m#ALL, with processed_ids empty, and persisting and
\* loading it again gives the same key set; a ledger just loaded from a
\* persisted file is the key set of the file.
C5_LegacyMigration ==
    /\ (pc \in LoopPcs /\ okRun = {} /\ LegacyOnly(file)) =>
            /\ processed_keys = { LegacyKey(m) : m \in ToSet(file.st["processed_ids"]) }
            /\ ToSet(state["processed_keys"]) = processed_keys
            /\ state["processed_ids"] = <<>>
            /\ ToSet(LoadState(JsonFile(state))["processed_keys"]) = processed_keys
    /\ (pc \in LoopPcs /\ okRun = {} /\ Persisted(file)) =>
            processed_keys = ToSet(file.st["processed_keys"])

\* C5: the second load, of the file the first run persisted after migrating
\* the two legacy ids.
C5_Witness ==
    /\ pc = "tick"
    /\ restarts = 1
    /\ Persisted(file)
    /\ processed_keys = {LegacyKey(M1), LegacyKey(M2)}
    /\ ToSet(file.st["processed_keys"]) = processed_keys

\* C6: when _save_state has returned for a unit, a load of the file reports
\* the key of the unit, and every other key of the ledger, as processed.
C6_MarkPersistLoad ==
    pc = "saved" => (CurKey \in OnDisk /\ processed_keys \subseteq OnDisk)

\* C6: a unit has been marked and persisted on top of a ledger that was not
\* empty.
C6_Witness ==
    /\ pc = "saved"
    /\ Cardinality(processed_keys) >= 2

C8_FailingUnitKeepsSiblings ==
    (pc = "ret" /\ raisedIn = "unit") =>
        \A i \in (tix + 1)..Len(tickers) : Key(CurMsg, tickers[i]) \in processed_keys

\* C9: when the cycle is over, _process_one has been called for every id of
\* the search.
C9_FailureKeepsCycle ==
    pc = "sleep" => ToSet(ids) \subseteq started

\* C9: the first message of the cycle raised and the second one was
\* processed.
C9_Witness ==
    /\ pc = "sleep"
    /\ Len(ids) = 2
    /\ ids[1] \in failedMsgs
    /\ ids[2] \in started

\* C10: main is left only by the interrupt.
C10_OnlyInterruptEndsLoop ==
    pc = "exited" => exitCause = "interrupt"

C12_FailedSummaryNotMarked ==
    /\ llmFailed \cap processed_keys = {}
    /\ llmFailed \cap OnDisk = {}
    /\ (pc = "ret" /\ raisedIn = "unit" /\ CurKey \in llmFailed) => CurKey \notin cycleWrites
    /\ (pc = "unit" /\ tix <= Len(tickers) /\ CurKey \in llmFailed) =>
            ~IsProcessed(CurKey, processed_keys)

\* C12: render_markdown is called again, in a later cycle, for a unit for
\* which it had raised.
C12_Witness ==
    /\ pc = "llm"
    /\ CurKey \in llmFailed
    /\ CurKey \notin written

\* C13: whatever the ledger file holds, the process does not die in
\* _load_state: it reaches the poll loop.
C13_LoadNeverCrashes ==
    pc # "load_error"

\* C14: choose_best_date returns the first present candidate in the order
\* article, header, internal, rendered in KST with the tag of its source,
\* and ("", unknown) when there is none.
C14_DatePriority ==
    (call.fn = "choose_best_date" /\ call.done) =>
        /\ call.article_dt.some =>
                call.result = <<FmtKst(call.article_dt), "article">>
        /\ (~call.article_dt.some /\ call.email_hdr_dt.some) =>
                call.result = <<FmtKst(call.email_hdr_dt), "email">>
        /\ (~call.article_dt.some /\ ~call.email_hdr_dt.some
                /\ call.gmail_internal_ms.some) =>
                /\ call.result[2] = "gmail"
                /\ call.result[1] = FmtKst(FromTimestampMs(call.gmail_internal_ms.ms))
        /\ (~call.article_dt.some /\ ~call.email_hdr_dt.some
                /\ ~call.gmail_internal_ms.some) =>
                call.result = <<<<>>, "unknown">>

\* C14: the header date 2025-11-01 15:00 UTC wins over a present internal
\* date and is rendered as "2025.11.02. 00:00".
C14_Witness ==
    /\ call.fn = "choose_best_date"
    /\ call.done
    /\ ~call.article_dt.some
    /\ call.email_hdr_dt = DateTime(1, 15)
    /\ call.gmail_internal_ms.some
    /\ call.result = << <<"2","0","2","5",".","1","1",".","0","2","."," ","0","0",":","0","0">>,
                        "email" >>

\* C16: the list _tickers_from_subject_leading returns is strictly
\* ascending (so sorted and free of duplicates); when the single-ticker
\* pattern matches, nothing but its group is returned; when only the list
\* pattern matches, nothing but tokens of its group; when neither matches,
\* the empty list; and with an allow-list, nothing outside it.
C16_TickersSortedFiltered ==
    (call.fn = "tickers" /\ call.done) =>
        /\ \A i \in 1..(Len(call.result) - 1) :
                StrLess(call.result[i], call.result[i + 1])
        /\ SubjLeadSingle(call.subject) # {} =>
                ToSet(call.result) \subseteq
                    { Group1(call.subject, Greedy(SubjLeadSingle(call.subject))) }
        /\ (SubjLeadSingle(call.subject) = {} /\ SubjLeadMulti(call.subject) # {}) =>
                ToSet(call.result) \subseteq
                    SplitTokens(Group1(call.subject, Greedy(SubjLeadMulti(call.subject))))
        /\ (SubjLeadSingle(call.subject) = {} /\ SubjLeadMulti(call.subject) = {}) =>
                call.result = <<>>
        /\ call.allowed # {} => ToSet(call.result) \subseteq call.allowed

\* C16: "NVDA, PLTR: up" with the allow-list {NVDA} gives [NVDA].
C16_Witness ==
    /\ call.fn = "tickers"
    /\ call.done
    /\ call.subject = <<"N","V","D","A",","," ","P","L","T","R",":"," ","u","p">>
    /\ call.allowed = {<<"N","V","D","A">>}
    /\ call.result = << <<"N","V","D","A">> >>

\* C17: every ticker _tickers_from_subject_leading returns has two to five
\* letters.
C17_TickerLength ==
    (call.fn = "tickers" /\ call.done) =>
        \A i \in 1..Len(call.result) :
            /\ 2 <= Len(call.result[i])
            /\ Len(call.result[i]) <= 5
            /\ IsAlpha(call.result[i])

\* where the text starts its "|SOURCE:" part
SourceAt(text) == CHOOSE p \in 1..Len(text) : text[p] = "|SOURCE:" /\ \A q \in 1..(p - 1) : text[q] # "|SOURCE:"

\* C15: the text a unit hands to render_markdown starts with the marker
\* line: the opening, a display that is not empty, the tag (one of article,
\* email, gmail, unknown) and the end of the line; the display is the
\* placeholder exactly when the tag is unknown; and what follows the line
\* is the text composed before, with no second marker in it.
C15_MarkerLine ==
    comp.at = "units" =>
        /\ comp.composed_text[1] = "[DETECTED_DATE_KST:"
        /\ \E p \in 1..Len(comp.composed_text) : comp.composed_text[p] = "|SOURCE:"
        /\ SourceAt(comp.composed_text) > 2
        /\ comp.composed_text[SourceAt(comp.composed_text) + 1]
                \in {"article", "email", "gmail", "unknown"}
        /\ comp.composed_text[SourceAt(comp.composed_text) + 2] = "]"
        /\ comp.composed_text[SourceAt(comp.composed_text) + 3] = "\n"
        /\ (SubSeq(comp.composed_text, 2, SourceAt(comp.composed_text) - 1) = Undetermined)
                <=> (comp.composed_text[SourceAt(comp.composed_text) + 1] = "unknown")
        /\ Cardinality({ p \in 1..Len(comp.composed_text) :
                            comp.composed_text[p] = "[DETECTED_DATE_KST:" }) = 1
        /\ SubSeq(comp.composed_text, SourceAt(comp.composed_text) + 4, SourceAt(comp.composed_text) + 4)
                = RawText

\* C15: no date could be resolved (no parsable header, no internal date, no
\* dated article) and the text of the unit carries the placeholder.
C15_Witness ==
    /\ comp.at = "units"
    /\ comp.best_src = "unknown"
    /\ comp.hdr = HdrBad
    /\ comp.fetched > 0
    /\ SubSeq(comp.composed_text, 1, 8) =
            <<"[DETECTED_DATE_KST:", "mi", "hwag", "in", "|SOURCE:", "unknown", "]", "\n">>

\* C18: of two idle cycles in a row, the second sleeps at least as long as
\* the first, jitter included.
C18_SleptNonDecreasing ==
    naps.prev_slept # 0 => naps.prev_slept <= naps.slept

\* C18 as amended: of two idle cycles in a row, the delay before jitter of
\* the second is at least that of the first and never above the ceiling;
\* the time slept is the delay plus a jitter of 0 to 5 seconds, so it falls
\* by 5 seconds at most.
C18_DelayNonDecreasing ==
    /\ naps.prev_sleep_s <= naps.sleep_s
    /\ naps.sleep_s <= IDLE_BACKOFF_MAX
    /\ naps.sleep_s <= naps.slept
    /\ naps.slept <= naps.sleep_s + 5
    /\ naps.prev_slept <= naps.slept + 5

\* C18: two idle cycles at the ceiling, the second sleeping less than the
\* first.
C18_Witness ==
    /\ naps.prev_sleep_s = IDLE_BACKOFF_MAX
    /\ naps.sleep_s = IDLE_BACKOFF_MAX
    /\ naps.slept < naps.prev_slept

\* the step of an idle cycle that follows a cycle which found ids
IdleAfterFound ==
    /\ pc = "tick"
    /\ prevIds # <<>>
    /\ pc' = "tick"
    /\ ticks' = ticks + 1

\* C19: the idle cycle that follows a cycle which found ids sleeps the base
\* interval, before jitter.
C19_NextIdleIsBase ==
    [][IdleAfterFound => idle_backoff' = POLL_INTERVAL_SEC]_vars

\* C19 as amended: from the moment a cycle has found ids idle_backoff is
\* the base interval, whatever becomes of its units, and the idle cycle
\* that follows sleeps min(IDLE_BACKOFF_MAX, int(1.5 * base)) before jitter.
C19_BackoffReset ==
    /\ []((\/ pc \in LoopPcs \ {"tick"}
           \/ (pc \in {"save_open", "save_dump"} /\ saveFor = "unit")
           \/ (pc = "tick" /\ prevIds # <<>>))
            => idle_backoff = POLL_INTERVAL_SEC)
    /\ [][IdleAfterFound => idle_backoff' = NextBackoff(POLL_INTERVAL_SEC)]_vars

\* C19: an idle cycle has followed a cycle that found a message and
\* completed no unit of it.
C19_Witness ==
    /\ pc = "tick"
    /\ ticks = 2
    /\ restarts = 0
    /\ llmFailed # {}
    /\ written = {}
    /\ idle_backoff = NextBackoff(POLL_INTERVAL_SEC)

\* C20: the test of lines 166-168 is on the key of the unit: a unit whose
\* key is in the ledger is passed over, and a unit whose key is not in the
\* ledger goes on to render_markdown, whatever other keys of the same
\* message the ledger holds (unless the process is interrupted or killed
\* at that point).
C20_DedupByUnitKey ==
    [][(pc = "unit" /\ tix <= Len(tickers) /\ pc' \notin {"save_open", "down"}) =>
            /\ CurKey \in processed_keys => (pc' = "unit" /\ tix' = tix + 1)
            /\ CurKey \notin processed_keys => (pc' = "llm" /\ tix' = tix)]_vars

\* C20: in a cycle that found the first ticker of the message in the ledger
\* and passed it over, the second one, not in the ledger, is being written.
C20_Witness ==
    /\ pc = "write"
    /\ tix = 2
    /\ Key(CurMsg, tickers[1]) \in processed_keys
    /\ Key(CurMsg, tickers[1]) \notin cycleWrites
    /\ CurKey \notin processed_keys

\* C21: a key whose _save_state has returned, and so was in the persisted
\* key set, is in the key set a load of the file gives at any later time
\* (the instant between open and json.dump of a save under way set aside).
C21_PersistedKeysKept ==
    pc # "save_dump" => completed \subseteq OnDisk

\* the message of the end-to-end scenario: one leading ticker, a body below
\* the minimum length, a first URL that gives an article with a published
\* display, and a unit that is not in the ledger
EndToEndCase ==
    /\ comp.subject = SubjOne
    /\ comp.bodyLen < MIN_BODY_LEN
    /\ Len(comp.urls) >= 1
    /\ comp.urls[1].kind = "article"
    /\ comp.urls[1].pub_kst # <<>>
    /\ comp.ledger0 = {}

\* C22: when _process_one returns for the message of the end-to-end
\* scenario, one text was given to render_markdown and it starts with
\* [DETECTED_DATE_KST:D|SOURCE:article] for the article's display D, one
\* report was written, and the ledger has gained the key msg_id#TSLA and
\* nothing else.
C22_EndToEnd ==
    (comp.at = "returned" /\ EndToEndCase) =>
        /\ Len(comp.llm_texts) = 1
        /\ LET prefix == <<"[DETECTED_DATE_KST:">> \o comp.urls[1].pub_kst
                            \o <<"|SOURCE:", "article", "]">>
           IN  /\ Len(comp.llm_texts[1]) >= Len(prefix)
               /\ SubSeq(comp.llm_texts[1], 1, Len(prefix)) = prefix
        /\ comp.reports = << ComposedId \o <<"#","T","S","L","A">> >>
        /\ comp.processed_keys \ comp.ledger0 = { ComposedId \o <<"#","T","S","L","A">> }

C22_Witness ==
    /\ comp.at = "returned"
    /\ EndToEndCase
    /\ Len(comp.reports) = 1
    /\ comp.fetch_log = <<1>>

\* C23: a body of at least MIN_BODY_LEN characters causes no fetch; a shorter
\* one has the candidates fetched in the order of the list, each once and
\* at most three, a fetch that raises or returns None is followed by the
\* next candidate, nothing is fetched after an article has come back, the
\* loop ends only on an article or when the first three candidates are
\* used up, and the composed text holds at most one article block.
C23_Composition ==
    /\ comp.bodyLen >= MIN_BODY_LEN => comp.fetch_log = <<>>
    /\ Len(comp.fetch_log) <= 3
    /\ comp.fetched = Len(comp.fetch_log)
    /\ \A k \in 1..Len(comp.fetch_log) : comp.fetch_log[k] = k
    /\ \A k \in 1..(Len(comp.fetch_log) - 1) : comp.urls[k].kind # "article"
    /\ (comp.bodyLen < MIN_BODY_LEN /\ comp.at \notin {"dates", "body", "fetch"}) =>
            \/ /\ comp.fetch_log # <<>>
               /\ comp.urls[Len(comp.fetch_log)].kind = "article"
            \/ Len(comp.fetch_log) = Min(Len(comp.urls), 3)
    /\ Cardinality({ i \in 1..Len(comp.composed_text) : comp.composed_text[i] = "[link]" })
            = IF comp.fetch_log # <<>> /\ comp.urls[Len(comp.fetch_log)].kind = "article"
                 /\ comp.at # "fetch"
              THEN 1 ELSE 0

C23_Witness ==
    /\ comp.at = "tickers"
    /\ Len(comp.urls) = 4
    /\ comp.urls[1] = ArtRaise
    /\ comp.urls[2] = ArtNone
    /\ comp.urls[3].kind = "article"
    /\ comp.urls[4].kind = "article"
    /\ comp.fetch_log = <<1, 2, 3>>

\* C25: the article fetch is made only for a unit that is not in the ledger:
\* a message that is skipped for lack of a ticker, or whose units were all in
\* the ledger when _process_one was called, has had no article fetched.
C25_FetchOnlyForNewUnit ==
    /\ comp.at = "skipped" => comp.fetch_log = <<>>
    /\ (comp.at = "returned" /\ comp.reports = <<>> /\ comp.llm_texts = <<>>) =>
            comp.fetch_log = <<>>

\* C27: a Date header that does not parse is taken as no header date and
\* stops nothing. Once the date is resolved for such a message, and no
\* article gave a date, the source is the internal receipt time if the
\* message has one and extract_email_dates returned, else unknown (after
\* extract_email_dates raised both candidates are absent); the source is
\* never the header. The units of the message are written: _process_one
\* fails only in a unit, after the text was composed, and when it returns
\* every unit that was not in the ledger has its report.
C27_BadDateIsAbsent ==
    /\ (comp.hdr = HdrBad /\ comp.at # "dates") => comp.dt_email_hdr = None
    /\ (comp.hdr = HdrBad /\ comp.at \in {"marker", "tickers", "units", "skipped", "returned", "failed"}) =>
            /\ comp.best_src # "email"
            /\ comp.best_src # "article" =>
                    /\ comp.best_src =
                            IF Truthy(comp.internalDate) /\ ~comp.dates_error
                            THEN "gmail" ELSE "unknown"
                    /\ comp.best_src = "gmail" =>
                            comp.best_date_display = FmtKst(FromTimestampMs(comp.internalDate.ms))
                    /\ comp.best_src = "unknown" => comp.best_date_display = <<>>
    /\ comp.at = "failed" => comp.llm_texts # <<>>
    /\ (comp.hdr = HdrBad /\ comp.at = "returned" /\ comp.ledger0 = {}) =>
            /\ Len(comp.reports) = Len(comp.tickers)
            /\ Len(comp.llm_texts) = Len(comp.tickers)

C27_Witness ==
    /\ comp.at = "returned"
    /\ comp.hdr = HdrBad
    /\ ~comp.dates_error
    /\ Truthy(comp.internalDate)
    /\ comp.best_src = "gmail"
    /\ Len(comp.reports) = 1

\* the subject of m has no leading ticker
NoTicker(m) == TickersFromSubjectLeading(mailbox[m], allowed) = <<>>

\* C24: a message whose subject yields no ticker never has a unit: while a
\* unit is summarized, written, marked or saved, the message under way is
\* one with a ticker, and the ledger of a running process changes only in
\* the marking of such a unit. The step that evaluates a message without a
\* ticker ends _process_one and leaves the ledger, the file and the reports
\* as they are. And the message is evaluated in every cycle whose search
\* returns it: when a cycle comes to its sleep, every message of the search
\* result has been fetched in that cycle.
C24_NoTickerSkipped ==
    /\ [](/\ (pc \in {"unit", "llm", "write", "mark", "saved"} \/ (pc \in {"save_open", "save_dump"} /\ saveFor = "unit"))
                => ~NoTicker(CurMsg)
          /\ pc = "sleep" => \A i \in 1..Len(ids) : ids[i] \in started)
    /\ [][/\ (pc = "msg" /\ NoTicker(CurMsg) /\ pc' \notin {"down", "save_open"}) =>
                /\ pc' = "ret"
                /\ CurMsg \in started'
                /\ UNCHANGED <<processed_keys, state, file, written, okRun, llmFailed, completed>>
          /\ (pc # "boot" /\ processed_keys' # processed_keys /\ processed_keys' # {}) =>
                (pc = "mark" /\ tickers # <<>>)]_vars

C24_Witness ==
    /\ pc = "ret"
    /\ NoTicker(CurMsg)
    /\ raisedIn = "none"
    /\ CurMsg \in started
    /\ repeat # "no"
    /\ ticks = 2

\* _process_one is past get_message for the message at idx
InMessage ==
    \/ pc \in {"unit", "llm", "write", "mark", "saved", "ret"}
    \/ pc \in {"save_open", "save_dump"} /\ saveFor = "unit"

\* a unit of the message at idx is under way
InUnit ==
    \/ pc \in {"llm", "write", "mark", "saved"}
    \/ pc \in {"save_open", "save_dump"} /\ saveFor = "unit"

\* C26: the messages of a cycle are taken one at a time in the order of the
\* search result: the messages fetched so far in the cycle are exactly
\* those before the one under way. The tickers of a message are taken in
\* ascending order: while a unit is under way, every ticker before it in
\* the loop is a smaller one and its unit is finished, that is, in the
\* ledger (a unit that fails ends the message).
C26_SequentialOrder ==
    /\ pc = "msg" => started = { ids[i] : i \in 1..(idx - 1) }
    /\ InMessage => started = { ids[i] : i \in 1..idx }
    /\ InMessage => \A i, j \in 1..Len(tickers) : i < j => StrLess(tickers[i], tickers[j])
    /\ InUnit =>
            /\ tix \in 1..Len(tickers)
            /\ \A j \in 1..(tix - 1) :
                    /\ StrLess(tickers[j], tickers[tix])
                    /\ Key(CurMsg, tickers[j]) \in processed_keys

C26_Witness ==
    /\ pc = "llm"
    /\ tix = 2
    /\ Key(CurMsg, tickers[1]) \in doneRun
    /\ ids = <<M1, M2>>

\* C28: after the load, a key enters the ledger of the process only when
\* render_markdown and write_markdown have returned for its unit in this
\* run, and only by the step of lines 181-182; the file of a running
\* process holds no key that the ledger of the process does not hold; a
\* unit whose save has returned in this run has its report.
C28_MarkAfterWork ==
    /\ [](/\ doneRun \subseteq okRun
          /\ pc \in LoopPcs \cup {"save_open", "save_dump"} => OnDisk \subseteq processed_keys)
    /\ [][/\ pc # "boot" => (processed_keys' \ processed_keys) \subseteq okRun
          /\ (pc # "boot" /\ processed_keys' # processed_keys /\ processed_keys' # {}) =>
                (pc = "mark" /\ processed_keys' = processed_keys \cup {CurKey})]_vars

C28_Witness ==
    /\ pc = "saved"
    /\ CurKey \in okRun \cap OnDisk
    /\ CurKey \in processed_keys
    /\ tix = 2
    /\ restarts = 1

\* C29: when a cycle that found messages comes to its sleep and no unit has
\* completed in it (no unit written in the cycle has had its save return),
\* the ledger of the process is the one the cycle started with (it holds no
\* unit written in the cycle) and the ledger file was not opened for
\* writing in the cycle.
C29_NoCompletionNoChange ==
    (pc = "sleep" /\ cycleWrites \cap doneRun = {}) =>
        /\ processed_keys \cap cycleWrites = {}
        /\ ToSet(Get(state, "processed_keys", <<>>)) \cap cycleWrites = {}
        /\ ~cycleSaved

====
